---- MODULE Spec2Model ----
(***************************************************************************)
(* MeshX network simulator (src/prototype/simulate_mesh.py).               *)
(*                                                                         *)
(* The state is one MeshXSimulator object: its node list, epoch counter,   *)
(* cumulative job counter and token price.  The operations are the three   *)
(* public methods that change it: select_validators, simulate_compute_job  *)
(* and run_epoch.  Every call of the `random` module is an input of the    *)
(* action, drawn from a small set.                                         *)
(*                                                                         *)
(* Arithmetic.  The code computes with Python floats; the model computes   *)
(* the same expressions exactly, on integers in fixed units:               *)
(*   - a token amount is held in units of 1 / (1000 * RewardDenom) token,  *)
(*     so that compute_units * 0.001 and the division by len(selected)     *)
(*     are exact;                                                          *)
(*   - the price is held in units of 1 / PriceDenom USD, so that every     *)
(*     multiplication by a drift multiplier k / DriftDenom is exact for    *)
(*     MaxEpoch updates.                                                   *)
(* Rounding of IEEE doubles is outside the model.                          *)
(*                                                                         *)
(* Hashing.  SHA-256 is replaced by a fixed digest with a small range.     *)
(* The model uses only that the digest is a function of the epoch number   *)
(* and the node identity; equal digests (hence equal scores) do occur.     *)
(***************************************************************************)
EXTENDS Integers, Sequences, FiniteSets, TLC

(***************************************************************************)
(* Bounds of the model.                                                    *)
(***************************************************************************)
\* largest num_nodes given to MeshXSimulator(num_nodes)
MaxNodes == 3
\* run_epoch is not called once the epoch counter reaches this
MaxEpoch == 1
\* neither simulate_compute_job nor run_epoch is called once the job counter
\* reaches this
MaxJobs == 2
\* size of the node subset of one job: min(10, ...) in the source, scaled down
JobSize == 2
\* the validator count of run_epoch: count = 100 in the source, scaled down
ValidatorCount == 2

\* num_nodes arguments; range(num_nodes) is empty for a negative one
NodeCounts == -1 .. MaxNodes
\* count arguments of direct select_validators calls
Counts == {-1, 0, 1, MaxNodes, MaxNodes + 1}
\* random.randint(50, 200): the number of jobs of one epoch, scaled down
JobCounts == {1, 2}
\* random.randint(100, 10000): compute units of one job, a sample of the range
ComputeUnits == {1000}
\* random.uniform(100, 10000): starting balances in tokens, a sample of the range
StartBalances == {100, 200}
\* random.randint(2, 16): cpu cores, a sample of the range
Cpus == {2}
\* (random.uniform(-90, 90), random.uniform(-180, 180)): the location drawn
\* for the node at each position, one fixed draw
LocationDraws == <<<<40, -100>>, <<50, 10>>, <<-80, 0>>, <<-20, 130>>, <<0, 20>>>>
LocationOf(p) == LocationDraws[((p - 1) % Len(LocationDraws)) + 1]

(***************************************************************************)
(* Units.                                                                  *)
(***************************************************************************)
RECURSIVE Factorial(_)
Factorial(n) == IF n <= 1 THEN 1 ELSE n * Factorial(n - 1)

RECURSIVE Power(_, _)
Power(b, e) == IF e <= 0 THEN 1 ELSE b * Power(b, e - 1)

\* every len(selected) in 1 .. MaxNodes divides RewardDenom
RewardDenom == Factorial(MaxNodes)
\* one token, in balance units
Token == 1000 * RewardDenom
\* random.uniform(0.98, 1.02) as k / DriftDenom: the ends 0.98 and 1.02
DriftDenom == 50
DriftMultipliers == {49, 51}
\* one USD, in price units
PriceDenom == 10 * Power(DriftDenom, MaxEpoch)
\* self.meshx_price = 0.10
StartPrice == PriceDenom \div 10
\* meshx_cost = compute_units * 0.001, in balance units
UnitPrice == RewardDenom
\* available_nodes: n.resources['cpu'] >= 2
MinCpu == 2

(***************************************************************************)
(* MeshXNode                                                               *)
(***************************************************************************)
\* a faulty variant of assign_shard: the Africa test is made before the
\* Europe test, and a location that matches no test gets no continent
assign_shard_reordered(location) ==
    LET lat == location[1]
        lon == location[2]
    IN  IF 15 < lat /\ lat < 75 /\ -170 < lon /\ lon < -50 THEN "North America"
        ELSE IF -40 < lat /\ lat < 40 /\ -20 < lon /\ lon < 55 THEN "Africa"
        ELSE IF 35 < lat /\ lat < 75 /\ -15 < lon /\ lon < 40 THEN "Europe"
        ELSE IF -10 < lat /\ lat < 55 /\ 40 < lon /\ lon < 150 THEN "Asia"
        ELSE IF -60 < lat /\ lat < 15 /\ -85 < lon /\ lon < -30 THEN "South America"
        ELSE IF -50 < lat /\ lat < -10 /\ 110 < lon /\ lon < 180 THEN "Oceania"
        ELSE IF lat < -60 THEN "Antarctica"
        ELSE "Unknown"

\* MeshXNode.assign_shard, on self.location = <<lat, lon>>
assign_shard(location) ==
    LET lat == location[1]
        lon == location[2]
    IN  IF 15 < lat /\ lat < 75 /\ -170 < lon /\ lon < -50 THEN "North America"
        ELSE IF 35 < lat /\ lat < 75 /\ -15 < lon /\ lon < 40 THEN "Europe"
        ELSE IF -10 < lat /\ lat < 55 /\ 40 < lon /\ lon < 150 THEN "Asia"
        ELSE IF -60 < lat /\ lat < 15 /\ -85 < lon /\ lon < -30 THEN "South America"
        ELSE IF -40 < lat /\ lat < 40 /\ -20 < lon /\ lon < 55 THEN "Africa"
        ELSE IF -50 < lat /\ lat < -10 /\ 110 < lon /\ lon < 180 THEN "Oceania"
        ELSE IF lat < -60 THEN "Antarctica"
        ELSE "North America"

\* MeshXNode(...): the dataclass constructor followed by __post_init__.
\* node_id is the number i of f"node_{i:04d}".  Of resources only the cpu
\* entry is kept: ram, storage and bandwidth are never read by a method that
\* changes the object.
MeshXNode(i, location, cpu, balance) ==
    [node_id |-> i, location |-> location, cpu |-> cpu,
     meshx_balance |-> balance, is_validator |-> FALSE,
     shard |-> assign_shard(location)]

\* the generated __eq__ of the dataclass: it compares the declared fields
\* (shard is set in __post_init__ and is not one of them)
NodeEq(a, b) ==
    /\ a.node_id = b.node_id
    /\ a.location = b.location
    /\ a.cpu = b.cpu
    /\ a.meshx_balance = b.meshx_balance
    /\ a.is_validator = b.is_validator

(***************************************************************************)
(* MeshXSimulator: the methods, as operators on the object `self`          *)
(* = [nodes, epoch, total_compute_jobs, meshx_price].  A method yields     *)
(* [self |-> the object afterwards, ret |-> the value returned,            *)
(*  raised |-> the exception that left the method, or "none"].             *)
(* A node object is referred to by its position in self.nodes.             *)
(***************************************************************************)
Min(a, b) == IF a <= b THEN a ELSE b
Max(a, b) == IF a >= b THEN a ELSE b

\* MeshXSimulator.__init__ after _generate_nodes appended `nodes`
NewSimulator(nodes) ==
    [nodes |-> nodes, epoch |-> 0, total_compute_jobs |-> 0,
     meshx_price |-> StartPrice]

\* _generate_nodes(count): every list of nodes it can build; range(count) is
\* empty for count <= 0
GeneratedNodes(count) ==
    LET n == Max(count, 0)
    IN  { [p \in 1 .. n |-> MeshXNode(p - 1, LocationOf(p), cpu[p], bal[p] * Token)] :
            cpu \in [1 .. n -> Cpus],
            bal \in [1 .. n -> StartBalances] }

\* the number of values of the digest that stands for SHA-256
DigestRange == 4

\* int(hashlib.sha256(epoch_seed + node_id).hexdigest(), 16), where
\* epoch_seed = sha256(str(epoch)): a fixed digest of (epoch, node_id)
vrf_output(epoch, node_id) ==
    ((epoch * 3 + node_id * 5 + epoch * node_id) % DigestRange) + 1

\* a faulty variant of Score: a node that is a validator counts double
ScoreIncumbent(self, p) ==
    vrf_output(self.epoch, self.nodes[p].node_id) * self.nodes[p].meshx_balance
        * (IF self.nodes[p].is_validator THEN 2 ELSE 1)

\* score = vrf_output * node.meshx_balance
Score(self, p) ==
    vrf_output(self.epoch, self.nodes[p].node_id) * self.nodes[p].meshx_balance

\* scored_nodes: the list of (score, node) in the order of self.nodes
ScoredNodes(self) ==
    [p \in 1 .. Len(self.nodes) |-> [score |-> Score(self, p), node |-> p]]

\* a faulty variant of InsertDescending: the sort without reverse = True
RECURSIVE InsertAscending(_, _)
InsertAscending(x, s) ==
    IF s = <<>> THEN <<x>>
    ELSE IF Head(s).score <= x.score
         THEN <<Head(s)>> \o InsertAscending(x, Tail(s))
         ELSE <<x>> \o s

\* list.sort(key = score, reverse = True): a stable sort, so entries of
\* equal score keep the order they had in the list
RECURSIVE InsertDescending(_, _)
InsertDescending(x, s) ==
    IF s = <<>> THEN <<x>>
    ELSE IF Head(s).score >= x.score
         THEN <<Head(s)>> \o InsertDescending(x, Tail(s))
         ELSE <<x>> \o s

RECURSIVE SortDescendingFrom(_, _, _)
SortDescendingFrom(s, i, acc) ==
    IF i > Len(s) THEN acc
    ELSE SortDescendingFrom(s, i + 1, InsertDescending(s[i], acc))

SortDescending(s) == SortDescendingFrom(s, 1, <<>>)

\* a faulty variant of SliceTo: the slice s[:count + 1]
SliceToInclusive(s, count) ==
    SubSeq(s, 1, Min(Max(count + 1, 0), Len(s)))

\* the Python slice s[:count]; a negative count drops the last -count entries
SliceTo(s, count) ==
    LET stop == IF count >= 0 THEN Min(count, Len(s))
                ELSE Max(Len(s) + count, 0)
    IN  SubSeq(s, 1, stop)

\* a faulty variant of NodeIn: a flag, once set, stays set
NodeInOrFlagged(nodes, p, validators) ==
    \/ nodes[p].is_validator
    \/ \E j \in 1 .. Len(validators) : validators[j] = p

\* `node in validators`: list containment, by identity or by __eq__
NodeIn(nodes, p, validators) ==
    \E j \in 1 .. Len(validators) :
        validators[j] = p \/ NodeEq(nodes[validators[j]], nodes[p])

\* for node in self.nodes: node.is_validator = node in validators
RECURSIVE MarkValidatorsFrom(_, _, _)
MarkValidatorsFrom(nodes, validators, p) ==
    IF p > Len(nodes) THEN nodes
    ELSE MarkValidatorsFrom(
             [nodes EXCEPT ![p].is_validator = NodeIn(nodes, p, validators)],
             validators, p + 1)

\* a faulty variant of MarkValidators: self.nodes itself was sorted, so the
\* validators come first in it
MarkValidatorsSorted(nodes, validators) ==
    LET marked == MarkValidatorsFrom(nodes, validators, 1)
        rest == SelectSeq([p \in 1 .. Len(nodes) |-> p],
                          LAMBDA p : \A j \in 1 .. Len(validators) :
                                        validators[j] # p)
        order == validators \o rest
    IN  [j \in 1 .. Len(nodes) |-> marked[order[j]]]

MarkValidators(nodes, validators) == MarkValidatorsFrom(nodes, validators, 1)

\* validators = [node for _, node in scored_nodes[:count]], after the sort
TopValidators(self, count) ==
    LET Nodes(top) == [j \in 1 .. Len(top) |-> top[j].node]
    IN  Nodes(SliceTo(SortDescending(ScoredNodes(self)), count))

\* select_validators(self, count)
select_validators(self, count) ==
    LET Mark(validators) ==
            [self |-> [self EXCEPT
                          !.nodes = MarkValidators(self.nodes, validators)],
             ret |-> validators,
             raised |-> "none"]
    IN  Mark(TopValidators(self, count))

\* the record of one select_validators call that returned r: its argument,
\* the epoch it read, its local scored_nodes, the list it returned, and
\* whether it cleared the flag of a node that was flagged before
SelectionRecord(self, count, r) ==
    [count |-> count, epoch |-> self.epoch, scored_nodes |-> ScoredNodes(self),
     ret |-> r.ret,
     cleared |-> \E p \in 1 .. Len(self.nodes) :
                    self.nodes[p].is_validator /\ ~r.self.nodes[p].is_validator]

\* available_nodes = [n for n in self.nodes if n.resources['cpu'] >= 2]
AvailableNodes(self) ==
    {p \in 1 .. Len(self.nodes) : self.nodes[p].cpu >= MinCpu}

\* a faulty variant of Samples: every available node is taken
SamplesUncapped(self) == {AvailableNodes(self)}

\* random.sample(available_nodes, min(10, len(available_nodes))): the node
\* subsets it can return (the order of the sample has no effect)
Samples(self) ==
    LET available == AvailableNodes(self)
    IN  {S \in SUBSET available :
            Cardinality(S) = Min(JobSize, Cardinality(available))}

\* a faulty variant of PayRewards: a paid node is replaced by a new
\* MeshXNode object with the new balance, whose is_validator is the default
PayRewardsRebuilt(nodes, selected, reward_per_node) ==
    [p \in 1 .. Len(nodes) |->
        IF p \in selected
        THEN MeshXNode(nodes[p].node_id, nodes[p].location, nodes[p].cpu,
                       nodes[p].meshx_balance + reward_per_node)
        ELSE nodes[p]]

\* a faulty variant of PayRewards: the rewards are taken out of the
\* balances of the nodes that were not selected
PayRewardsCharged(nodes, selected, reward_per_node) ==
    [p \in 1 .. Len(nodes) |->
        IF p \in selected
        THEN [nodes[p] EXCEPT !.meshx_balance = @ + reward_per_node]
        ELSE [nodes[p] EXCEPT !.meshx_balance = @ - reward_per_node]]

\* for node in selected: node.meshx_balance += reward_per_node
PayRewards(nodes, selected, reward_per_node) ==
    [p \in 1 .. Len(nodes) |->
        IF p \in selected
        THEN [nodes[p] EXCEPT !.meshx_balance = @ + reward_per_node]
        ELSE nodes[p]]

\* a faulty variant of RewardPerNode: every node is paid the whole cost
RewardUndivided(meshx_cost, subset_size) == meshx_cost

\* reward_per_node = meshx_cost / len(selected)
RewardPerNode(meshx_cost, subset_size) == meshx_cost \div subset_size

\* a faulty variant of IncrementJobs: `= 1` written for `+= 1`
AssignOneJob(total_compute_jobs) == 1

\* self.total_compute_jobs += 1
IncrementJobs(total_compute_jobs) == total_compute_jobs + 1

\* simulate_compute_job(self), with the sample and the compute units drawn.
\* usd_cost is held in units of 0.001 / PriceDenom USD.
\* avg_latency_ms, a random number that is only reported, is left out.
simulate_compute_job(self, selected, compute_units) ==
    LET meshx_cost == compute_units * UnitPrice
        usd_cost == compute_units * self.meshx_price
        job_number == IncrementJobs(self.total_compute_jobs)
    IN  IF Cardinality(selected) = 0
        THEN \* meshx_cost / len(selected) raises; nothing was assigned before
             [self |-> self, ret |-> <<>>, raised |-> "ZeroDivisionError"]
        ELSE [self |-> [self EXCEPT
                  !.nodes = PayRewards(self.nodes, selected,
                                       RewardPerNode(meshx_cost,
                                                     Cardinality(selected))),
                  !.total_compute_jobs = job_number],
              ret |-> [job_id |-> job_number,
                       compute_units |-> compute_units,
                       meshx_cost |-> meshx_cost,
                       usd_cost |-> usd_cost,
                       nodes_used |-> Cardinality(selected)],
              raised |-> "none"]

\* the record of one simulate_compute_job call: its draws, the object before
\* and after it, the value returned and the exception raised
JobRecord(self, selected, compute_units) ==
    LET Record(r) ==
            [selected |-> selected, compute_units |-> compute_units,
             before |-> self, after |-> r.self, ret |-> r.ret,
             raised |-> r.raised]
    IN  Record(simulate_compute_job(self, selected, compute_units))

\* a faulty variant of RunJobs: every job starts from the object as the
\* loop found it, and the object the last job leaves is kept (jobs run side
\* by side on one snapshot of the balances)
RECURSIVE RunJobsFromSnapshot(_, _, _, _, _)
RunJobsFromSnapshot(self, draws, i, total_meshx_spent, jobs) ==
    IF i > Len(draws)
    THEN [self |-> IF jobs = <<>> THEN self ELSE jobs[Len(jobs)].after,
          total_meshx_spent |-> total_meshx_spent,
          jobs |-> jobs, raised |-> "none"]
    ELSE LET Continue(j) ==
                 IF j.raised # "none"
                 THEN [self |-> j.after, total_meshx_spent |-> total_meshx_spent,
                       jobs |-> Append(jobs, j), raised |-> j.raised]
                 ELSE RunJobsFromSnapshot(self, draws, i + 1,
                                          total_meshx_spent + j.ret.meshx_cost,
                                          Append(jobs, j))
         IN  Continue(JobRecord(self, draws[i].selected, draws[i].compute_units))

\* for _ in range(jobs_this_epoch): job = self.simulate_compute_job(); ...
\* `draws` holds the sample and the compute units of each iteration; an
\* exception of a job leaves the loop and run_epoch.  `jobs` collects the
\* record of every call made.
RECURSIVE RunJobs(_, _, _, _, _)
RunJobs(self, draws, i, total_meshx_spent, jobs) ==
    IF i > Len(draws)
    THEN [self |-> self, total_meshx_spent |-> total_meshx_spent,
          jobs |-> jobs, raised |-> "none"]
    ELSE LET Continue(j) ==
                 IF j.raised # "none"
                 THEN [self |-> j.after, total_meshx_spent |-> total_meshx_spent,
                       jobs |-> Append(jobs, j), raised |-> j.raised]
                 ELSE RunJobs(j.after, draws, i + 1,
                              total_meshx_spent + j.ret.meshx_cost,
                              Append(jobs, j))
         IN  Continue(JobRecord(self, draws[i].selected, draws[i].compute_units))

\* a faulty variant of UpdatePrice: the price is multiplied by the change
\* (multiplier - 1) instead of the multiplier
UpdatePriceByChange(price, multiplier) ==
    (price * (multiplier - DriftDenom)) \div DriftDenom

\* self.meshx_price *= random.uniform(0.98, 1.02)
UpdatePrice(price, multiplier) == (price * multiplier) \div DriftDenom

\* a faulty variant of run_epoch: the epoch counter is incremented after
\* the validators are selected
run_epoch_late_increment(self, draws, multiplier) ==
    LET Finish(selected, ran) ==
            [self |-> IF ran.raised # "none" THEN ran.self
                      ELSE [ran.self EXCEPT
                               !.meshx_price = UpdatePrice(@, multiplier)],
             total_meshx_spent |-> ran.total_meshx_spent,
             selection |-> SelectionRecord(self, ValidatorCount, selected),
             jobs |-> ran.jobs,
             raised |-> ran.raised]
        Jobs(selected) ==
            Finish(selected,
                   RunJobs([selected.self EXCEPT !.epoch = @ + 1], draws, 1, 0, <<>>))
    IN  Jobs(select_validators(self, ValidatorCount))

\* a faulty variant of run_epoch: the jobs are run before the validators
\* are selected
run_epoch_jobs_first(self, draws, multiplier) ==
    LET started == [self EXCEPT !.epoch = @ + 1]
        Finish(ran, selected) ==
            [self |-> IF ran.raised # "none" THEN ran.self
                      ELSE [selected.self EXCEPT
                               !.meshx_price = UpdatePrice(@, multiplier)],
             total_meshx_spent |-> ran.total_meshx_spent,
             selection |-> SelectionRecord(ran.self, ValidatorCount, selected),
             jobs |-> ran.jobs,
             raised |-> ran.raised]
        Select(ran) == Finish(ran, select_validators(ran.self, ValidatorCount))
    IN  Select(RunJobs(started, draws, 1, 0, <<>>))

\* run_epoch(self), with the random draws of the call as parameters (the
\* prints and the shard count they report change nothing and are left out):
\* draws[i] for the i-th job, Len(draws) = jobs_this_epoch.  The method
\* returns None; `total_meshx_spent` is its local variable when it ends,
\* `selection` and `jobs` record the calls it made.
run_epoch(self, draws, multiplier) ==
    LET started == [self EXCEPT !.epoch = @ + 1]
        Finish(selected, ran) ==
            [self |-> IF ran.raised # "none" THEN ran.self
                      ELSE [ran.self EXCEPT
                               !.meshx_price = UpdatePrice(@, multiplier)],
             total_meshx_spent |-> ran.total_meshx_spent,
             selection |-> SelectionRecord(started, ValidatorCount, selected),
             jobs |-> ran.jobs,
             raised |-> ran.raised]
        Jobs(selected) ==
            Finish(selected, RunJobs(selected.self, draws, 1, 0, <<>>))
    IN  Jobs(select_validators(started, ValidatorCount))

\* get_network_stats(self); total_resources has the cpu entry only, and
\* market_cap_usd is left out
get_network_stats(self) ==
    LET RECURSIVE SumFrom(_, _)
        SumFrom(f, p) == IF p > Len(self.nodes) THEN 0
                         ELSE f[p] + SumFrom(f, p + 1)
        total_meshx == SumFrom([p \in 1 .. Len(self.nodes) |->
                                   self.nodes[p].meshx_balance], 1)
    IN  [total_nodes |-> Len(self.nodes),
         total_validators |->
             Cardinality({p \in 1 .. Len(self.nodes) : self.nodes[p].is_validator}),
         total_cpu |-> SumFrom([p \in 1 .. Len(self.nodes) |-> self.nodes[p].cpu], 1),
         total_meshx_supply |-> total_meshx,
         total_compute_jobs |-> self.total_compute_jobs]

(***************************************************************************)
(* The state machine.                                                      *)
(***************************************************************************)
VARIABLES
    nodes,               \* self.nodes
    epoch,               \* self.epoch
    total_compute_jobs,  \* self.total_compute_jobs
    meshx_price,         \* self.meshx_price
    last,                \* the last call made on the object: the method, its
                         \* arguments and draws, the counters and the price
                         \* before it, the select_validators and
                         \* simulate_compute_job calls it made, the exception
                         \* that left it
    ledger               \* history: the balance every node was created with,
                         \* and the sum of meshx_cost over the jobs executed

vars == <<nodes, epoch, total_compute_jobs, meshx_price, last, ledger>>

Self ==
    [nodes |-> nodes, epoch |-> epoch,
     total_compute_jobs |-> total_compute_jobs, meshx_price |-> meshx_price]

\* the counters and the price of the object
Scalars(self) ==
    [epoch |-> self.epoch, total_compute_jobs |-> self.total_compute_jobs,
     meshx_price |-> self.meshx_price]

\* the balances of a new node list, and no job executed yet
NewLedger(generated) ==
    [initial |-> [p \in 1 .. Len(generated) |-> generated[p].meshx_balance],
     meshx_cost |-> 0]

\* the sum of job['meshx_cost'] over the jobs that returned
RECURSIVE MeshxCost(_, _)
MeshxCost(jobs, i) ==
    IF i > Len(jobs) THEN 0
    ELSE (IF jobs[i].raised = "none" THEN jobs[i].ret.meshx_cost ELSE 0)
             + MeshxCost(jobs, i + 1)

\* the object becomes `after`; the call is recorded
Becomes(after, call) ==
    /\ nodes' = after.nodes
    /\ epoch' = after.epoch
    /\ total_compute_jobs' = after.total_compute_jobs
    /\ meshx_price' = after.meshx_price
    /\ last' = call
    /\ ledger' = [ledger EXCEPT !.meshx_cost = @ + MeshxCost(call.jobs, 1)]

\* sim = MeshXSimulator(num_nodes)
Init ==
    \E num_nodes \in NodeCounts :
        \E generated \in GeneratedNodes(num_nodes) :
            LET sim == NewSimulator(generated)
            IN  /\ nodes = sim.nodes
                /\ epoch = sim.epoch
                /\ total_compute_jobs = sim.total_compute_jobs
                /\ meshx_price = sim.meshx_price
                /\ last = [op |-> "__init__", args |-> [num_nodes |-> num_nodes],
                           before |-> Scalars(sim), selections |-> <<>>, jobs |-> <<>>,
                           raised |-> "none"]
                /\ ledger = NewLedger(generated)

\* sim.select_validators(count)
SelectValidators ==
    \E count \in Counts :
        \E r \in {select_validators(Self, count)} :
            Becomes(r.self,
                    [op |-> "select_validators", args |-> [count |-> count],
                     before |-> Scalars(Self),
                     selections |-> <<SelectionRecord(Self, count, r)>>,
                     jobs |-> <<>>, raised |-> r.raised])

\* sim.simulate_compute_job()
SimulateComputeJob ==
    /\ total_compute_jobs < MaxJobs
    /\ \E selected \in Samples(Self), compute_units \in ComputeUnits :
           \E job \in {JobRecord(Self, selected, compute_units)} :
               Becomes(job.after,
                       [op |-> "simulate_compute_job", args |-> <<>>,
                        before |-> Scalars(Self), selections |-> <<>>,
                        jobs |-> <<job>>, raised |-> job.raised])

\* sim.run_epoch()
RunEpoch ==
    /\ epoch < MaxEpoch
    /\ total_compute_jobs < MaxJobs
    /\ \E jobs_this_epoch \in JobCounts, multiplier \in DriftMultipliers :
           \E draws \in [1 .. jobs_this_epoch ->
                            [selected : Samples(Self),
                             compute_units : ComputeUnits]] :
               \E r \in {run_epoch(Self, draws, multiplier)} :
                   Becomes(r.self,
                           [op |-> "run_epoch",
                            args |-> [jobs_this_epoch |-> jobs_this_epoch,
                                      multiplier |-> multiplier,
                                      total_meshx_spent |-> r.total_meshx_spent],
                            before |-> Scalars(Self), selections |-> <<r.selection>>,
                            jobs |-> r.jobs, raised |-> r.raised])

Next == SelectValidators \/ SimulateComputeJob \/ RunEpoch

Spec == Init /\ [][Next]_vars

(***************************************************************************)
(* The shard classifier on its own: one node is built at a location of the *)
(* whole domain and assign_shard is called on it again.                    *)
(*                                                                         *)
(* The locations are whole degrees.  Every comparison of assign_shard is   *)
(* strict and against a whole number of degrees, and on neither coordinate *)
(* is a lower limit n of a test followed by an upper limit n + 1 of a      *)
(* test; so a coordinate strictly between n and n + 1 passes the same      *)
(* comparisons as n or as n + 1.                                           *)
(***************************************************************************)
\* lat = random.uniform(-90, 90)
Latitudes == -90 .. 90
\* lon = random.uniform(-180, 180)
Longitudes == -180 .. 180

\* self.nodes.append(MeshXNode(node_id, (lat, lon), resources, balance))
InitShard ==
    \E lat \in Latitudes, lon \in Longitudes :
        LET node == MeshXNode(0, <<lat, lon>>, MinCpu, Token)
            sim == NewSimulator(<<node>>)
        IN  /\ nodes = sim.nodes
            /\ epoch = sim.epoch
            /\ total_compute_jobs = sim.total_compute_jobs
            /\ meshx_price = sim.meshx_price
            /\ last = [op |-> "MeshXNode", args |-> [location |-> <<lat, lon>>],
                       ret |-> node.shard]
            /\ ledger = NewLedger(<<node>>)

\* node.assign_shard(), on the node of the list
AssignShard ==
    /\ last.op = "MeshXNode"
    /\ last' = [op |-> "assign_shard", args |-> [location |-> nodes[1].location],
                ret |-> assign_shard(nodes[1].location)]
    /\ UNCHANGED <<nodes, epoch, total_compute_jobs, meshx_price, ledger>>

NextShard == AssignShard

SpecShard == InitShard /\ [][NextShard]_vars

(***************************************************************************)
(* Properties.                                                             *)
(***************************************************************************)
Range(s) == {s[i] : i \in 1 .. Len(s)}

\* the node list as the last select_validators call left it: the current
\* list after a direct call, the list the first job found inside run_epoch
NodesAtSelection ==
    IF last.op = "run_epoch" THEN last.jobs[1].before.nodes ELSE nodes

\* C1: for a target count k >= 0, select_validators returns exactly
\* min(k, |nodes|) pairwise distinct nodes of the node list, and all the
\* nodes when k > |nodes|
C1_ValidatorCount ==
    \A i \in 1 .. Len(last.selections) :
        LET sel == last.selections[i]
        IN  sel.count >= 0 =>
              /\ Len(sel.ret) = Min(sel.count, Len(nodes))
              /\ Cardinality(Range(sel.ret)) = Len(sel.ret)
              /\ Range(sel.ret) \subseteq 1 .. Len(nodes)
              /\ sel.count > Len(nodes) => Range(sel.ret) = 1 .. Len(nodes)

\* a direct call that picked a proper, non-empty part of the node list
C1_Witness ==
    /\ last.op = "select_validators"
    /\ last.args.count > 0
    /\ last.args.count < Len(nodes)
    /\ Len(last.selections[1].ret) = last.args.count

\* C2: the score of a node is its digest for the epoch times its balance at
\* the moment of selection, and every selected node has a score greater than
\* or equal to the score of every node that was not selected
C2_TopByScore ==
    \A i \in 1 .. Len(last.selections) :
        LET sel == last.selections[i]
            at == NodesAtSelection
            score(p) == vrf_output(sel.epoch, at[p].node_id) * at[p].meshx_balance
        IN  /\ Len(sel.scored_nodes) = Len(at)
            /\ \A p \in 1 .. Len(at) : sel.scored_nodes[p].score = score(p)
            /\ \A p \in Range(sel.ret) :
                   \A q \in (1 .. Len(at)) \ Range(sel.ret) :
                       score(p) >= score(q)

\* a selection that left out a node of strictly lower score than a selected
\* one, although the left-out node comes earlier in the list
C2_Witness ==
    /\ last.selections # <<>>
    /\ LET sel == last.selections[1]
       IN  \E p \in Range(sel.ret) :
               \E q \in (1 .. Len(nodes)) \ Range(sel.ret) :
                   /\ q < p
                   /\ sel.scored_nodes[p].score > sel.scored_nodes[q].score

\* C3: after a select_validators call a node is flagged is_validator exactly
\* when it is in the returned list, whatever was flagged before (so
\* total_validators is the length of the list), and the same selection made
\* again leaves every flag as it is
C3_FlagsOverwritten ==
    \A i \in 1 .. Len(last.selections) :
        LET sel == last.selections[i]
            at == NodesAtSelection
        IN  /\ \A p \in 1 .. Len(at) :
                   at[p].is_validator <=> p \in Range(sel.ret)
            /\ get_network_stats([Self EXCEPT !.nodes = at]).total_validators
                   = Len(sel.ret)
            /\ select_validators([Self EXCEPT !.nodes = at, !.epoch = sel.epoch],
                                 sel.count).self.nodes = at

\* a call that flagged some nodes and cleared the flag an earlier selection
\* had set on another
C3_Witness ==
    /\ last.selections # <<>>
    /\ Len(last.selections[1].ret) > 0
    /\ last.selections[1].cleared

\* the objects that hold the same nodes (identities, balances) at the same
\* epoch, with other flags, another job counter, another price
SameNetworks(at, ep) ==
    { [nodes |-> [p \in 1 .. Len(at) |->
                     [at[p] EXCEPT !.is_validator = (p \in flagged)]],
       epoch |-> ep, total_compute_jobs |-> other[1], meshx_price |-> other[2]] :
        flagged \in {{}, 1 .. Len(at)} \cup {{p} : p \in 1 .. Len(at)},
        other \in {<<0, StartPrice>>, <<MaxJobs + 1, 2 * StartPrice>>} }

\* C4: every object that holds the same nodes at the same epoch number
\* returns, for the same target count, the validator list this call returned
C4_Deterministic ==
    \A i \in 1 .. Len(last.selections) :
        LET sel == last.selections[i]
        IN  \A other \in SameNetworks(NodesAtSelection, sel.epoch) :
                TopValidators(other, sel.count) = sel.ret

\* a selection of a proper part of the nodes on an object that had run
\* jobs and had validators flagged
C4_Witness ==
    /\ last.op = "select_validators"
    /\ last.before.total_compute_jobs > 0
    /\ last.selections[1].cleared
    /\ Len(last.selections[1].ret) > 0
    /\ Len(last.selections[1].ret) < Len(nodes)

\* the simulate_compute_job calls of the last call that ran to their end
ExecutedJobs == {i \in 1 .. Len(last.jobs) : last.jobs[i].raised = "none"}

\* each simulate_compute_job call of the last call started on the object the
\* call before it left, and the last one left the current object
JobsChained ==
    /\ \A i \in 1 .. Len(last.jobs) - 1 :
           last.jobs[i + 1].before = last.jobs[i].after
    /\ last.jobs # <<>> =>
         /\ Scalars(last.jobs[1].before)
                = [last.before EXCEPT
                      !.epoch = IF last.op = "run_epoch" THEN @ + 1 ELSE @]
         /\ last.jobs[Len(last.jobs)].after.nodes = nodes
         /\ last.jobs[Len(last.jobs)].after.total_compute_jobs
                = total_compute_jobs

\* C5: the job counter starts at 0; every executed job adds exactly 1 to it
\* and takes the new value as its job_id; a call adds the number of jobs it
\* executed, so the counter never decreases and job ids increase strictly
C5_JobCounter ==
    /\ last.op = "__init__" => total_compute_jobs = 0
    /\ JobsChained
    /\ \A i \in 1 .. Len(last.jobs) :
           LET job == last.jobs[i]
           IN  IF job.raised = "none"
               THEN /\ job.after.total_compute_jobs
                           = job.before.total_compute_jobs + 1
                    /\ job.ret.job_id = job.after.total_compute_jobs
                    /\ job.ret.job_id = last.before.total_compute_jobs + i
               ELSE job.after.total_compute_jobs
                        = job.before.total_compute_jobs
    /\ total_compute_jobs
           = last.before.total_compute_jobs + Cardinality(ExecutedJobs)
    /\ total_compute_jobs >= last.before.total_compute_jobs

\* an epoch that executed two jobs on an object whose counter was not 0
C5_Witness ==
    /\ last.op = "run_epoch"
    /\ last.before.total_compute_jobs > 0
    /\ Cardinality(ExecutedJobs) = 2
    /\ last.jobs[2].ret.job_id = total_compute_jobs

RECURSIVE SumOver(_, _)
SumOver(f, S) ==
    IF S = {} THEN 0
    ELSE LET x == CHOOSE y \in S : TRUE
         IN  f[x] + SumOver(f, S \ {x})

\* C6: an executed job costs compute_units * 0.001 token (1000 units cost
\* one token); every node of the selected subset gains the cost divided by
\* the size of the subset, no other balance changes, and the gains add up
\* to the cost
C6_RewardDistribution ==
    \A i \in ExecutedJobs :
        LET job == last.jobs[i]
            positions == 1 .. Len(job.before.nodes)
            gain == [p \in positions |->
                        job.after.nodes[p].meshx_balance
                            - job.before.nodes[p].meshx_balance]
            size == Cardinality(job.selected)
        IN  /\ Len(job.after.nodes) = Len(job.before.nodes)
            /\ job.ret.meshx_cost * 1000 = job.compute_units * Token
            /\ job.ret.compute_units = job.compute_units
            /\ job.selected \subseteq positions
            /\ \A p \in job.selected : gain[p] * size = job.ret.meshx_cost
            /\ \A p \in positions \ job.selected : gain[p] = 0
            /\ SumOver(gain, positions) = job.ret.meshx_cost

\* a job that paid two nodes of three half of its cost each
C6_Witness ==
    \E i \in ExecutedJobs :
        LET job == last.jobs[i]
        IN  /\ Len(job.before.nodes) = 3
            /\ Cardinality(job.selected) = 2
            /\ \A p \in job.selected :
                   2 * (job.after.nodes[p].meshx_balance
                            - job.before.nodes[p].meshx_balance)
                       = job.ret.meshx_cost

\* C7: the price is strictly positive in every state, before and after
\* every call
C7_PricePositive ==
    /\ meshx_price > 0
    /\ last.before.meshx_price > 0
    /\ \A i \in 1 .. Len(last.jobs) :
           last.jobs[i].before.meshx_price > 0 /\ last.jobs[i].after.meshx_price > 0

\* an epoch that ran to its end and lowered the price
C7_Witness ==
    /\ last.op = "run_epoch"
    /\ last.raised = "none"
    /\ meshx_price < last.before.meshx_price

\* C8 as claimed: a job that finds no eligible node signals
\* NoEligibleNodesError, changes neither a balance nor the job counter, and
\* run_epoch skips it and runs to its end
C8_NoEligibleNodesError ==
    \A i \in 1 .. Len(last.jobs) :
        LET job == last.jobs[i]
        IN  AvailableNodes(job.before) = {} =>
              /\ job.raised = "NoEligibleNodesError"
              /\ job.after = job.before
              /\ last.op = "run_epoch" =>
                    /\ last.raised = "none"
                    /\ Len(last.jobs) = last.args.jobs_this_epoch

\* C9 as claimed: on an object with no nodes run_epoch ends normally, with
\* the epoch counter one higher, no validators, no job executed and the
\* price updated
C9_EmptyNetworkEpoch ==
    (last.op = "run_epoch" /\ Len(nodes) = 0) =>
        /\ last.raised = "none"
        /\ epoch = last.before.epoch + 1
        /\ last.selections[1].ret = <<>>
        /\ total_compute_jobs = last.before.total_compute_jobs
        /\ meshx_price = UpdatePrice(last.before.meshx_price, last.args.multiplier)

\* C10 as claimed: a select_validators call with a negative count returns
\* no validators and leaves the nodes, their flags included, as they were
C10_NegativeCountRejected ==
    [][(last'.op = "select_validators" /\ last'.args.count < 0) =>
          /\ last'.selections[1].ret = <<>>
          /\ nodes' = nodes]_vars

\* C11 as claimed: a negative node count is rejected by the constructor:
\* it leaves no object on which run_epoch is called
C11_InvalidConfigurationRejected ==
    [][(last.op = "__init__" /\ last.args.num_nodes < 0) =>
          last'.op # "run_epoch"]_vars

\* the labels a shard can have
ShardLabels ==
    {"North America", "Europe", "Asia", "South America", "Africa", "Oceania",
     "Antarctica"}

\* the region tests of the classifier in their priority order: a location
\* matches a test when it lies strictly between the limits on both
\* coordinates (the last test limits the latitude from above only)
RegionTests ==
    << [label |-> "North America", lat |-> <<15, 75>>, lon |-> <<-170, -50>>],
       [label |-> "Europe", lat |-> <<35, 75>>, lon |-> <<-15, 40>>],
       [label |-> "Asia", lat |-> <<-10, 55>>, lon |-> <<40, 150>>],
       [label |-> "South America", lat |-> <<-60, 15>>, lon |-> <<-85, -30>>],
       [label |-> "Africa", lat |-> <<-40, 40>>, lon |-> <<-20, 55>>],
       [label |-> "Oceania", lat |-> <<-50, -10>>, lon |-> <<110, 180>>],
       [label |-> "Antarctica", lat |-> <<-91, -60>>, lon |-> <<-181, 181>>] >>

Matches(test, location) ==
    /\ test.lat[1] < location[1] /\ location[1] < test.lat[2]
    /\ test.lon[1] < location[2] /\ location[2] < test.lon[2]

\* the tests a location matches, by their place in the priority order
MatchingTests(location) ==
    {t \in 1 .. Len(RegionTests) : Matches(RegionTests[t], location)}

\* C12: for every location of the domain the classifier returns one of the
\* seven labels: the label of the first region test the location matches,
\* North America when it matches none; the shard of a node is that label;
\* (40,-100), (50,10), (-80,0) are North America, Europe, Antarctica
C12_ShardClassifier ==
    LET location == nodes[1].location
        matching == MatchingTests(location)
        first == CHOOSE t \in matching : \A u \in matching : t <= u
        expected == IF matching = {} THEN "North America"
                    ELSE RegionTests[first].label
    IN  /\ last.ret \in ShardLabels
        /\ last.ret = expected
        /\ nodes[1].shard = expected
        /\ location = <<40, -100>> => last.ret = "North America"
        /\ location = <<50, 10>> => last.ret = "Europe"
        /\ location = <<-80, 0>> => last.ret = "Antarctica"

\* assign_shard was called on a location that matches the Europe test and
\* the Africa test, and returned Europe
C12_Witness ==
    /\ last.op = "assign_shard"
    /\ \E t, u \in MatchingTests(nodes[1].location) :
           /\ RegionTests[t].label = "Europe"
           /\ RegionTests[u].label = "Africa"
    /\ last.ret = "Europe"

\* the orders in which a list of n nodes can be held
Orders(n) ==
    {f \in [1 .. n -> 1 .. n] : \A p, q \in 1 .. n : p # q => f[p] # f[q]}

\* C13 as claimed: a select_validators call returns the same set of nodes
\* (by node_id) in whatever order the node list holds the nodes, nodes of
\* equal score included
C13_TieByIdentity ==
    \A i \in 1 .. Len(last.selections) :
        LET sel == last.selections[i]
            at == NodesAtSelection
            Ids(list, validators) ==
                {list[validators[j]].node_id : j \in 1 .. Len(validators)}
        IN  sel.count >= 0 =>
              \A f \in Orders(Len(at)) :
                  LET reordered == [p \in 1 .. Len(at) |-> at[f[p]]]
                      other == [Self EXCEPT !.nodes = reordered,
                                            !.epoch = sel.epoch]
                  IN  Ids(reordered, TopValidators(other, sel.count))
                          = Ids(at, sel.ret)

\* C14: in a run_epoch call the validators are selected first, on the
\* balances no job of the call has paid into yet; then the jobs run, each
\* computing usd_cost with the price the call started with; the price is
\* updated last
C14_EpochStepOrder ==
    last.op = "run_epoch" =>
        LET sel == last.selections[1]
            first == last.jobs[1].before
        IN  /\ JobsChained
            /\ Len(sel.scored_nodes) = Len(first.nodes)
            /\ \A p \in 1 .. Len(first.nodes) :
                   /\ sel.scored_nodes[p].score
                          = vrf_output(sel.epoch, first.nodes[p].node_id)
                                * first.nodes[p].meshx_balance
                   /\ first.nodes[p].is_validator <=> p \in Range(sel.ret)
            /\ \A i \in 1 .. Len(last.jobs) :
                   /\ last.jobs[i].before.meshx_price = last.before.meshx_price
                   /\ last.jobs[i].after.meshx_price = last.before.meshx_price
                   /\ i \in ExecutedJobs =>
                          last.jobs[i].ret.usd_cost
                              = last.jobs[i].compute_units * last.before.meshx_price
            /\ last.raised = "none" =>
                   meshx_price = UpdatePrice(last.before.meshx_price,
                                             last.args.multiplier)

\* an epoch that ran to its end, changed the price, and whose jobs paid so
\* that a selection made after them would have returned other validators
C14_Witness ==
    /\ last.op = "run_epoch"
    /\ last.raised = "none"
    /\ meshx_price # last.before.meshx_price
    /\ TopValidators(Self, ValidatorCount) # last.selections[1].ret

\* C15: the epoch counter is 0 after construction; a run_epoch call adds
\* exactly 1 to it, also when a job of the call raised, and no other call
\* changes it; the selection of a run_epoch call reads the incremented
\* counter and computes its scores from the digest for that number
C15_EpochCounter ==
    /\ last.op = "__init__" => epoch = 0
    /\ epoch >= last.before.epoch
    /\ epoch = last.before.epoch + (IF last.op = "run_epoch" THEN 1 ELSE 0)
    /\ \A i \in 1 .. Len(last.selections) :
           LET sel == last.selections[i]
               at == NodesAtSelection
           IN  /\ sel.epoch = epoch
               /\ \A p \in 1 .. Len(at) :
                      sel.scored_nodes[p].score
                          = vrf_output(epoch, at[p].node_id) * at[p].meshx_balance

\* an epoch whose selection, had it read the counter before the increment,
\* would have returned other validators
C15_Witness ==
    /\ last.op = "run_epoch"
    /\ epoch = last.before.epoch + 1
    /\ TopValidators([Self EXCEPT !.nodes = NodesAtSelection,
                                  !.epoch = last.before.epoch],
                     ValidatorCount) # last.selections[1].ret

\* C16: a simulate_compute_job call, made directly or by run_epoch, leaves
\* the price, the epoch counter and the is_validator flag of every node as
\* they were
C16_JobFrame ==
    /\ \A i \in 1 .. Len(last.jobs) :
           LET job == last.jobs[i]
           IN  /\ job.after.meshx_price = job.before.meshx_price
               /\ job.after.epoch = job.before.epoch
               /\ Len(job.after.nodes) = Len(job.before.nodes)
               /\ \A p \in 1 .. Len(job.before.nodes) :
                      job.after.nodes[p].is_validator
                          = job.before.nodes[p].is_validator
    /\ last.op = "simulate_compute_job" =>
           /\ JobsChained
           /\ meshx_price = last.before.meshx_price
           /\ epoch = last.before.epoch

\* a direct call, after an epoch, that paid a validator and a node that is
\* no validator
C16_Witness ==
    /\ last.op = "simulate_compute_job"
    /\ last.raised = "none"
    /\ epoch > 0
    /\ meshx_price # StartPrice
    /\ \E p, q \in last.jobs[1].selected :
           nodes[p].is_validator /\ ~nodes[q].is_validator

\* C17: every node has the shard its location classifies to, and no call
\* adds, removes or moves a node or changes a node's node_id, location,
\* resources or shard
C17_NodesStable ==
    /\ \A p \in 1 .. Len(nodes) : nodes[p].shard = assign_shard(nodes[p].location)
    /\ [][/\ Len(nodes') = Len(nodes)
          /\ \A p \in 1 .. Len(nodes) :
                 /\ nodes'[p].node_id = nodes[p].node_id
                 /\ nodes'[p].location = nodes[p].location
                 /\ nodes'[p].cpu = nodes[p].cpu
                 /\ nodes'[p].shard = nodes[p].shard
                 /\ nodes'[p].shard = assign_shard(nodes'[p].location)]_vars

\* an epoch has run on three nodes: a flag is set and a balance has grown
C17_Witness ==
    /\ last.op = "run_epoch"
    /\ last.raised = "none"
    /\ Len(nodes) = 3
    /\ \E p \in 1 .. Len(nodes) :
           nodes[p].is_validator /\ nodes[p].node_id # 0
    /\ \E p \in 1 .. Len(nodes) :
           nodes[p].meshx_balance
               > last.jobs[1].before.nodes[p].meshx_balance

\* C18: the nodes a job selected are min(job size, number of eligible nodes)
\* nodes with cpu >= 2, nodes_used is their number, and the nodes whose
\* balance the job raised are exactly these
C18_JobSubset ==
    \A i \in 1 .. Len(last.jobs) :
        LET job == last.jobs[i]
            positions == 1 .. Len(job.before.nodes)
            eligible == {p \in positions : job.before.nodes[p].cpu >= 2}
            paid == {p \in positions :
                        job.after.nodes[p].meshx_balance
                            > job.before.nodes[p].meshx_balance}
        IN  /\ job.selected \subseteq eligible
            /\ Cardinality(job.selected) = Min(JobSize, Cardinality(eligible))
            /\ paid \subseteq job.selected
            /\ job.raised = "none" =>
                   /\ paid = job.selected
                   /\ job.ret.nodes_used = Cardinality(job.selected)

\* a job on more eligible nodes than the job size, and, in the same call, a
\* job that selected other nodes
C18_Witness ==
    /\ Cardinality(ExecutedJobs) = 2
    /\ Cardinality(AvailableNodes(Self)) > JobSize
    /\ last.jobs[1].ret.nodes_used = JobSize
    /\ last.jobs[1].selected # last.jobs[2].selected

\* the object after simulate_compute_job calls with the given draws, made in
\* the given order
RECURSIVE AfterJobs(_, _, _, _)
AfterJobs(self, draws, order, k) ==
    IF k > Len(order) THEN self
    ELSE AfterJobs(simulate_compute_job(self, draws[order[k]].selected,
                                        draws[order[k]].compute_units).self,
                   draws, order, k + 1)

\* compute units of two jobs of unequal cost
UnequalUnits == {<<100, 10000>>, <<10000, 100>>, <<2000, 3000>>}

Supply(list) ==
    SumOver([p \in 1 .. Len(list) |-> list[p].meshx_balance], 1 .. Len(list))

\* C20: in every state every balance is at least the balance the node was
\* created with, which is not negative, and the total supply is the supply
\* at construction plus the meshx_cost of all jobs executed; no call lowers
\* a balance; select_validators, directly or inside run_epoch, changes no
\* balance, nor does the price update that ends run_epoch
C20_TokensOnlyMinted ==
    /\ [](/\ Len(ledger.initial) = Len(nodes)
          /\ \A p \in 1 .. Len(nodes) :
                 /\ ledger.initial[p] >= 0
                 /\ nodes[p].meshx_balance >= ledger.initial[p]
          /\ get_network_stats(Self).total_meshx_supply
                 = SumOver(ledger.initial, 1 .. Len(nodes)) + ledger.meshx_cost)
    /\ [][/\ \A p \in 1 .. Len(nodes) :
                 nodes'[p].meshx_balance >= nodes[p].meshx_balance
          /\ Supply(nodes') = Supply(nodes) + MeshxCost(last'.jobs, 1)
          /\ last'.op = "select_validators" =>
                 \A p \in 1 .. Len(nodes) :
                     nodes'[p].meshx_balance = nodes[p].meshx_balance
          /\ last'.op = "run_epoch" =>
                 /\ \A p \in 1 .. Len(nodes) :
                        last'.jobs[1].before.nodes[p].meshx_balance
                            = nodes[p].meshx_balance
                 /\ last'.jobs[Len(last'.jobs)].after.nodes = nodes']_vars

\* a selection made after two jobs were executed, on nodes of which one has
\* the balance it was created with and another has more
C20_Witness ==
    /\ last.op = "select_validators"
    /\ total_compute_jobs = 2
    /\ ledger.meshx_cost = 2 * Token
    /\ \E p, q \in 1 .. Len(nodes) :
           /\ nodes[p].meshx_balance = ledger.initial[p]
           /\ nodes[q].meshx_balance > ledger.initial[q]

====
